---- MODULE Spec2Model ----
(***************************************************************************)
(* Logic Expression Simplifier (Quine-McCluskey), src/main.cpp.            *)
(*                                                                         *)
(* Spec    : the whole pipeline of main(): validate, cvtAL, cvtRPN, the    *)
(*           tree builder of analyze(), tvt(), QMA() and gpl(), started    *)
(*           from every string of 0..MaxLen characters of Alphabet and     *)
(*           every sentence of the input grammar of up to MaxExprLen       *)
(*           characters over the variables A and B.                        *)
(* SpecQMA : QMA() and gpl() started from every minterm sequence over      *)
(*           1..MaxVars variables, with indices up to MaxIndex, that       *)
(*           analyze() hands to QMA().                                     *)
(* SpecQMAFair : SpecQMA with weak fairness of its steps (the program is   *)
(*           single-threaded and runs each loop iteration to completion).  *)
(*                                                                         *)
(* Characters are one-character strings, C++ strings are sequences of      *)
(* characters, a std::stack is a sequence whose top is its last element.   *)
(***************************************************************************)
EXTENDS Integers, Sequences, FiniteSets, TLC

\* Longest arbitrary input string drawn by Init.
MaxLen == 3
\* Longest sentence of the surface grammar drawn by Init.
MaxExprLen == 6
\* Largest number of variables drawn by InitQMA.
MaxVars == 4
\* Largest minterm index drawn by InitQMA.
MaxIndex == 9

\* The characters the inputs are drawn from: two variables, both constants,
\* every operator and parenthesis, and one character validate() rejects.
Alphabet == {"A", "B", "0", "1", "(", ")", "+", "'", "^", "a"}

UpperSeq == <<"A", "B", "C", "D", "E", "F", "G", "H", "I", "J", "K", "L", "M",
              "N", "O", "P", "Q", "R", "S", "T", "U", "V", "W", "X", "Y", "Z">>
DigitSeq == <<"0", "1", "2", "3", "4", "5", "6", "7", "8", "9">>

Range(s) == {s[i] : i \in DOMAIN s}

isupper(c) == c \in Range(UpperSeq)
isdigit(c) == c \in Range(DigitSeq)

\* Character code of an uppercase letter ('A' = 65), and its inverse.
Ord(c) == 64 + (CHOOSE i \in DOMAIN UpperSeq : UpperSeq[i] = c)
Chr(n) == UpperSeq[n - 64]
\* i - '0' for a digit character i.
DigitVal(c) == (CHOOSE i \in DOMAIN DigitSeq : DigitSeq[i] = c) - 1

\* The character of code 0, which terminates a std::string.
Nul == "NUL"

\* The text of a message as the sequence of its characters.
ErrInvalidExpression ==
    <<"[", "E", "R", "R", "O", "R", "]", " ", "I", "n", "v", "a", "l", "i", "d",
      " ", "e", "x", "p", "r", "e", "s", "s", "i", "o", "n">>

VARIABLES
    pc,      \* position in main()/analyze()/QMA()/gpl()
    input,   \* std::string input
    var,     \* std::set<char> var
    rpn,     \* std::string rpn of analyze()
    pos,     \* number of characters of rpn the tree builder has consumed
    heap,    \* allocated OpNode objects: node id -> [kind, l, r, cvar]
    stk,     \* std::stack<OpNode*> stk of analyze() (node ids)
    bnd,     \* the copy of stk that std::bind stored in errout
    rootl,   \* root.l (0 = nullptr)
    err,     \* the message written to std::cerr ("" = none)
    out,     \* the "Y = ..." result written to std::cout ("" = none)
    ub,      \* TRUE once the run has executed undefined behaviour
    m,       \* std::vector<size_t> m
    ls,      \* ls of QMA()
    st,      \* st of QMA()/gpl(): pattern -> set of minterm indices
    chk,     \* the patterns whose chk entry is true
    f,       \* the merge flag f of QMA()
    cmb,     \* the pairs <<j, k>> the last round set chk for
    rounds,  \* number of completed passes of the do-while loop
    cnt,     \* cnt of gpl(): minterm index -> set of patterns
    rtn      \* rtn of gpl()

vars == <<pc, input, var, rpn, pos, heap, stk, bnd, rootl, err, out, ub,
          m, ls, st, chk, f, cmb, rounds, cnt, rtn>>

parseVars == <<input, var, rpn, pos, heap, stk, bnd, rootl>>
qmaVars == <<m, ls, st, chk, f, cmb, rounds, cnt, rtn>>

----------------------------------------------------------------------------
(* validate(), lines 86-97 *)

AllowedChar(c) ==
    isupper(c) \/ c \in {"(", ")", "+", "'", "1", "0", "^"}

\* Index of the first rejected character, 0 when there is none.
FirstInvalid(s) ==
    IF \A i \in DOMAIN s : AllowedChar(s[i]) THEN 0
    ELSE CHOOSE i \in DOMAIN s :
            /\ ~AllowedChar(s[i])
            /\ \A k \in 1..(i - 1) : AllowedChar(s[k])

\* The variables inserted before validate() returns.
ValidateVars(s) ==
    LET n == IF FirstInvalid(s) = 0 THEN Len(s) ELSE FirstInvalid(s) - 1
    IN  {s[i] : i \in {k \in 1..n : isupper(s[k])}}

----------------------------------------------------------------------------
(* prf and cvtAL, lines 170-187 *)

prfSwapped(c) ==
    CASE c = "(" -> 1
      [] c = "+" -> 4
      [] c = "^" -> 3
      [] c = "*" -> 2
      [] c = "'" -> 5
      [] c = ")" -> 6
      [] OTHER -> 0

prf(c) ==
    CASE c = "(" -> 1
      [] c = "+" -> 2
      [] c = "^" -> 3
      [] c = "*" -> 4
      [] c = "'" -> 5
      [] c = ")" -> 6
      [] OTHER -> 0

RECURSIVE cvtALFrom(_, _)
\* The characters appended for expr[i..], i >= 2.
cvtALFrom(expr, i) ==
    IF i > Len(expr) THEN <<>>
    ELSE LET star == /\ (isupper(expr[i]) \/ isdigit(expr[i]) \/ expr[i] = "(")
                     /\ expr[i - 1] # "("
                     /\ expr[i - 1] # "+"
                     /\ expr[i - 1] # "^"
         IN  (IF star THEN <<"*">> ELSE <<>>) \o <<expr[i]>> \o cvtALFrom(expr, i + 1)

\* Line 180 appends expr[0] unconditionally: for the empty string that is the
\* terminator, so the result is the one-character string holding Nul.
cvtAL(expr) == <<IF expr = <<>> THEN Nul ELSE expr[1]>> \o cvtALFrom(expr, 2)

----------------------------------------------------------------------------
(* cvtRPN, lines 191-236 *)

Top(s) == s[Len(s)]
Pop(s) == SubSeq(s, 1, Len(s) - 1)

RECURSIVE PopUntilOpen(_)
\* Lines 200-203: pop to tmp until the stack is empty or its top is '('.
PopUntilOpen(c) ==
    IF c.stk # <<>> /\ Top(c.stk) # "("
    THEN PopUntilOpen([c EXCEPT !.tmp = Append(@, Top(c.stk)), !.stk = Pop(@)])
    ELSE c

RECURSIVE PopHigher(_, _)
\* Lines 211-214: pop to tmp while the top has a priority above that of i.
PopHigher(c, i) ==
    IF c.stk # <<>> /\ prf(Top(c.stk)) > prf(i)
    THEN PopHigher([c EXCEPT !.tmp = Append(@, Top(c.stk)), !.stk = Pop(@)], i)
    ELSE c

\* One iteration of the loop of lines 194-216 on character i.
RPNChar(c, i) ==
    IF isupper(i) \/ isdigit(i) THEN [c EXCEPT !.tmp = Append(@, i)]
    ELSE IF c.stk = <<>> \/ i = "(" THEN [c EXCEPT !.stk = Append(@, i)]
    ELSE IF i = ")" THEN
        LET d == PopUntilOpen(c)
        IN  IF d.stk = <<>> THEN [d EXCEPT !.fail = TRUE]
            ELSE [d EXCEPT !.stk = Pop(@)]
    ELSE IF prf(Top(c.stk)) < prf(i) THEN [c EXCEPT !.stk = Append(@, i)]
    ELSE LET d == PopHigher(c, i)
         IN  [d EXCEPT !.stk = Append(@, i)]

RECURSIVE RPNScan(_, _, _)
\* The loop of lines 194-216 from character n on; stops at the early return.
RPNScan(expr, n, c) ==
    IF c.fail \/ n > Len(expr) THEN c
    ELSE RPNScan(expr, n + 1, RPNChar(c, expr[n]))

RECURSIVE Reverse(_)
Reverse(s) == IF s = <<>> THEN <<>> ELSE <<Top(s)>> \o Reverse(Pop(s))

RECURSIVE Compress(_, _, _)
\* Lines 222-234: the NOT-compressing pass over tmp from index i, j NOTs pending.
Compress(tmp, i, j) ==
    IF i > Len(tmp) THEN (IF j % 2 = 1 THEN <<"'">> ELSE <<>>)
    ELSE IF tmp[i] = "'" THEN Compress(tmp, i + 1, j + 1)
    ELSE (IF j % 2 = 1 THEN <<"'">> ELSE <<>>) \o <<tmp[i]>> \o Compress(tmp, i + 1, 0)

cvtRPN(expr) ==
    LET c == RPNScan(expr, 1, [tmp |-> <<>>, stk |-> <<>>, fail |-> FALSE])
    IN  IF c.fail THEN ErrInvalidExpression
        ELSE Compress(c.tmp \o Reverse(c.stk), 1, 0)

----------------------------------------------------------------------------
(* OpNode and its subclasses, lines 100-164 *)

NewNode(kind, l, r, cvar) == [kind |-> kind, l |-> l, r |-> r, cvar |-> cvar]

RECURSIVE get(_, _, _)
\* OpNode::get() of node id in heap h under the assignment mvar.
get(h, id, mvar) ==
    LET n == h[id] IN
    CASE n.kind = "Var" -> IF n.cvar < 2 THEN n.cvar ELSE mvar[Chr(n.cvar)]
      [] n.kind = "Not" -> 1 - get(h, n.l, mvar)
      [] n.kind = "And" -> IF get(h, n.l, mvar) = 1 /\ get(h, n.r, mvar) = 1 THEN 1 ELSE 0
      [] n.kind = "Or"  -> IF get(h, n.l, mvar) = 1 \/ get(h, n.r, mvar) = 1 THEN 1 ELSE 0
      [] n.kind = "Xor" -> IF get(h, n.l, mvar) # get(h, n.r, mvar) THEN 1 ELSE 0

RECURSIVE Subtree(_, _)
\* The nodes ~OpNode() deletes when node id is deleted (lines 106-109).
Subtree(h, id) ==
    IF id = 0 THEN {}
    ELSE {id} \cup Subtree(h, h[id].l) \cup Subtree(h, h[id].r)

\* Lines 378-386: ast(err, s) deletes every node of its stack argument s.
astDelete(h, s) ==
    LET dead == UNION {Subtree(h, s[i]) : i \in DOMAIN s}
    IN  [id \in (DOMAIN h) \ dead |-> h[id]]

----------------------------------------------------------------------------
(* tvt(), lines 240-259 *)

Pow2(n) == 2 ^ n
\* (i >> j) & 1
Bit(i, j) == (i \div Pow2(j)) % 2

\* Position (0-based) of variable c in the iteration order of std::set<char>.
VarRank(vs, c) == Cardinality({d \in vs : Ord(d) < Ord(c)})

\* Lines 249-253: mvar for table row i.
mvarOf(vs, i) ==
    [c \in vs |-> Bit(i, (Cardinality(vs) - 1) - VarRank(vs, c))]

RECURSIVE AscendingFrom(_, _, _)
\* The members of set s in lo..hi, in the ascending order the loop visits them.
AscendingFrom(s, lo, hi) ==
    IF lo > hi THEN <<>>
    ELSE (IF lo \in s THEN <<lo>> ELSE <<>>) \o AscendingFrom(s, lo + 1, hi)

\* The contents of m after tvt(): every row whose root.get() is not 0.
tvtMinterms(h, root, vs) ==
    LET lmt == Pow2(Cardinality(vs))
    IN  AscendingFrom({i \in 0..(lmt - 1) : get(h, root, mvarOf(vs, i)) # 0},
                      0, lmt - 1)

----------------------------------------------------------------------------
(* count1 and QMA(), lines 263-269 and 315-375 *)

count1(str) == Cardinality({i \in DOMAIN str : str[i] = "1"})

\* Lines 320-322 with j ascending: the least significant bit first.
ToPatternLsbFirst(i, n) == [p \in 1..n |-> IF Bit(i, p - 1) = 1 THEN "1" ELSE "0"]

\* Lines 320-322: the pattern of minterm i over n variables.
ToPattern(i, n) == [p \in 1..n |-> IF Bit(i, n - p) = 1 THEN "1" ELSE "0"]

\* Lines 319-325.
ConvertLs(ms, n) == [k \in DOMAIN ms |-> ToPattern(ms[k], n)]
ConvertSt(ms, n) ==
    [p \in {ToPattern(ms[k], n) : k \in DOMAIN ms} |->
        {ms[k] : k \in {q \in DOMAIN ms : ToPattern(ms[q], n) = p}}]

RECURSIVE CompareFrom(_, _, _, _, _)
CompareFrom(j, k, l, tmp, c) ==
    IF c < 2 /\ l <= Len(j)
    THEN IF j[l] # k[l]
         THEN CompareFrom(j, k, l + 1, Append(tmp, "-"), c + 1)
         ELSE CompareFrom(j, k, l + 1, Append(tmp, j[l]), c)
    ELSE [tmp |-> tmp, cnt |-> c]

\* Lines 349-357: tmp and cnt for the pair j, k.
Compare(j, k) == CompareFrom(j, k, 1, <<>>, 0)

\* grp[c] after the grouping loop of lines 338-343.
Grp(l, c) == SelectSeq(l, LAMBDA p : count1(p) = c)

GrpMax(l) ==
    IF l = <<>> THEN -1
    ELSE CHOOSE x \in {count1(l[i]) : i \in DOMAIN l} :
            \A i \in DOMAIN l : count1(l[i]) <= x

\* The pairs <<j, k>> of lines 347-348 for one i, in loop order.
Cross(a, b) ==
    IF Len(a) > 0 /\ Len(b) > 0
    THEN [n \in 1..(Len(a) * Len(b)) |->
            <<a[((n - 1) \div Len(b)) + 1], b[((n - 1) % Len(b)) + 1]>>]
    ELSE <<>>

RECURSIVE PairsUpTo(_, _)
\* Every pair the loops of lines 345-348 visit for i = 1..mx, in order.
PairsUpTo(l, mx) ==
    IF mx < 1 THEN <<>>
    ELSE PairsUpTo(l, mx - 1) \o Cross(Grp(l, mx), Grp(l, mx - 1))

\* Lines 349-367 with line 366 marking j only.
MergePairMarkJ(a, pr) ==
    LET j == pr[1]
        k == pr[2]
        c == Compare(j, k)
    IN  IF c.cnt # 1 THEN a
        ELSE [st  |-> IF c.tmp \in DOMAIN a.st THEN a.st
                      ELSE a.st @@ (c.tmp :> (a.st[j] \cup a.st[k])),
              tls |-> IF c.tmp \in DOMAIN a.st THEN a.tls ELSE Append(a.tls, c.tmp),
              chk |-> a.chk \cup {j},
              f   |-> TRUE,
              cmb |-> a.cmb \cup {pr}]

\* Lines 349-367 for one pair: a = [st, tls, chk, f, cmb].
MergePair(a, pr) ==
    LET j == pr[1]
        k == pr[2]
        c == Compare(j, k)
    IN  IF c.cnt # 1 THEN a
        ELSE [st  |-> IF c.tmp \in DOMAIN a.st THEN a.st
                      ELSE a.st @@ (c.tmp :> (a.st[j] \cup a.st[k])),
              tls |-> IF c.tmp \in DOMAIN a.st THEN a.tls ELSE Append(a.tls, c.tmp),
              chk |-> a.chk \cup {j, k},
              f   |-> TRUE,
              cmb |-> a.cmb \cup {pr}]

RECURSIVE MergePairs(_, _, _, _)
\* The loops of lines 345-368 over the pairs ps[lo..hi] in order, starting
\* from a: the first half, then the second half from the result of the first
\* (each result is bound to a variable so that it is computed once).
MergePairs(a, ps, lo, hi) ==
    IF lo > hi THEN a
    ELSE IF lo = hi THEN MergePair(a, ps[lo])
    ELSE CHOOSE r \in
            {MergePairs(b, ps, ((lo + hi) \div 2) + 1, hi) :
                b \in {MergePairs(a, ps, lo, (lo + hi) \div 2)}} : TRUE

\* Lines 369-371 with the check of chk dropped.
SurvivorsAll(l, c) == l

\* Lines 369-371: the patterns of ls that no comparison marked.
Survivors(l, c) == SelectSeq(l, LAMBDA p : p \notin c)

\* One pass of the do-while body, lines 332-372.
Round(l, s) ==
    CHOOSE r \in
        {[ls |-> a.tls \o Survivors(l, a.chk), st |-> a.st, chk |-> a.chk,
          f |-> a.f, cmb |-> a.cmb] :
            a \in {MergePairs([st |-> s, tls |-> <<>>, chk |-> {}, f |-> FALSE,
                               cmb |-> {}], ps, 1, Len(ps)) :
                        ps \in {PairsUpTo(l, GrpMax(l))}}} : TRUE

----------------------------------------------------------------------------
(* gpl(), lines 272-311 *)

\* Lines 278-280.
CountElements(l, s) ==
    [x \in UNION {s[l[i]] : i \in DOMAIN l} |->
        {l[i] : i \in {q \in DOMAIN l : x \in s[l[q]]}}]

\* Lines 287-291 with the comparison of sizes dropped: any key.
MinKeysAny(c) == DOMAIN c

\* Lines 284-291: the keys the scan can end with in mns. The map is iterated
\* in an unspecified order and a key replaces mns only when strictly smaller,
\* so any key of the least size can be the result.
MinKeys(c) ==
    {x \in DOMAIN c : \A y \in DOMAIN c : Cardinality(c[x]) <= Cardinality(c[y])}

\* Lines 293-299: the patterns the scan can end with in ms; the empty string
\* when no candidate has a non-empty set.
MaxSets(c, s, mns) ==
    IF \A p \in c[mns] : s[p] = {} THEN {<<>>}
    ELSE {p \in c[mns] : \A q \in c[mns] : Cardinality(s[p]) >= Cardinality(s[q])}

\* Lines 302-308 with cnt emptied instead of the covered keys erased.
DeleteClearsCnt(c, s, ms) ==
    LET s1   == IF ms \in DOMAIN s THEN s ELSE s @@ (ms :> {})
        gone == s1[ms]
    IN  [st  |-> [p \in DOMAIN s1 |-> IF p = ms THEN {} ELSE s1[p] \ gone],
         cnt |-> <<>>]

\* Lines 302-308: erase the minterms of st[ms] everywhere, then clear st[ms].
Delete(c, s, ms) ==
    LET s1   == IF ms \in DOMAIN s THEN s ELSE s @@ (ms :> {})
        gone == s1[ms]
    IN  [st  |-> [p \in DOMAIN s1 |-> IF p = ms THEN {} ELSE s1[p] \ gone],
         cnt |-> [x \in (DOMAIN c) \ gone |-> c[x]]]

----------------------------------------------------------------------------
(* Initial states *)

RECURSIVE Strings(_)
\* Every sequence of exactly n characters of Alphabet.
Strings(n) ==
    IF n = 0 THEN {<<>>}
    ELSE {Append(s, c) : s \in Strings(n - 1), c \in Alphabet}

\* The empty string is what "std::cin >> input" leaves at end of input.
Inputs == UNION {Strings(n) : n \in 0..MaxLen}

\* The sentences of the surface grammar (the input form of lines 32-34 and 44)
\*   expr := term (('+' | '^') term)*, term := factor factor*,
\*   factor := atom "'"*, atom := VARIABLE | '(' expr ')'
\* over the variables A and B, by length: SentenceTable(n)[k] holds the atoms,
\* factors, terms, '^'-phrases and expressions of exactly k characters.
SentenceOperands == {<<"A">>, <<"B">>}

Joined(t, n, left, op, right) ==
    UNION {{x \o op \o y : x \in t[k][left], y \in t[n - Len(op) - k][right]} :
            k \in 1..(n - Len(op) - 1)}

SentenceEntry(t, n) ==
    LET a == (IF n = 1 THEN SentenceOperands ELSE {})
             \cup (IF n >= 3 THEN {<<"(">> \o e \o <<")">> : e \in t[n - 2].e} ELSE {})
        g == a \cup (IF n >= 2 THEN {Append(h, "'") : h \in t[n - 1].f} ELSE {})
        u == g \cup UNION {{x \o y : x \in t[k].t, y \in t[n - k].f} : k \in 1..(n - 1)}
        x == u \cup Joined(t, n, "x", <<"^">>, "t")
        e == x \cup Joined(t, n, "e", <<"+">>, "x")
    IN  [a |-> a, f |-> g, t |-> u, x |-> x, e |-> e]

RECURSIVE SentenceTable(_)
SentenceTable(n) ==
    IF n = 0 THEN <<>>
    ELSE CHOOSE r \in {Append(t, SentenceEntry(t, n)) : t \in {SentenceTable(n - 1)}} : TRUE

Sentences == UNION {SentenceTable(MaxExprLen)[n].e : n \in 1..MaxExprLen}

\* The state after "std::cin >> input" (line 72): globals as constructed.
Init ==
    /\ pc = "validate"
    /\ input \in Inputs \cup Sentences
    /\ var = {}
    /\ rpn = <<>>
    /\ pos = 0
    /\ heap = <<>>
    /\ stk = <<>>
    /\ bnd = <<>>
    /\ rootl = 0
    /\ err = ""
    /\ out = ""
    /\ ub = FALSE
    /\ m = <<>>
    /\ ls = <<>>
    /\ st = <<>>
    /\ chk = {}
    /\ f = FALSE
    /\ cmb = {}
    /\ rounds = 0
    /\ cnt = <<>>
    /\ rtn = <<>>

\* The first n uppercase letters.
FirstVars(n) == {UpperSeq[i] : i \in 1..n}

Min(a, b) == IF a < b THEN a ELSE b

\* The minterm sequences with which analyze() calls QMA() for n variables:
\* ascending, not empty and not all of 0..2^n-1 (lines 476-483); the indices
\* drawn are those up to MaxIndex.
MintermSeqs(n) ==
    {AscendingFrom(s, 0, Pow2(n) - 1) :
        s \in (SUBSET (0..Min(Pow2(n) - 1, MaxIndex))) \ {{}, 0..(Pow2(n) - 1)}}

\* The state at the call of QMA() on line 484: var and m are all that QMA()
\* and gpl() read; the parser's variables are left as constructed.
InitQMA ==
    /\ pc = "qma"
    /\ \E n \in 1..MaxVars :
        /\ var = FirstVars(n)
        /\ m \in MintermSeqs(n)
    /\ input = <<>>
    /\ rpn = <<>>
    /\ pos = 0
    /\ heap = <<>>
    /\ stk = <<>>
    /\ bnd = <<>>
    /\ rootl = 0
    /\ err = ""
    /\ out = ""
    /\ ub = FALSE
    /\ ls = <<>>
    /\ st = <<>>
    /\ chk = {}
    /\ f = FALSE
    /\ cmb = {}
    /\ rounds = 0
    /\ cnt = <<>>
    /\ rtn = <<>>

----------------------------------------------------------------------------
(* main() and validate(), lines 75-79 and 86-97 *)

ValidateReject ==
    /\ pc = "validate"
    /\ FirstInvalid(input) # 0
    /\ var' = ValidateVars(input)
    /\ err' = "[ERROR] Invalid character"
    /\ pc' = "exit"
    /\ UNCHANGED <<input, rpn, pos, heap, stk, bnd, rootl, out, ub>>
    /\ UNCHANGED qmaVars

ValidateAccept ==
    /\ pc = "validate"
    /\ FirstInvalid(input) = 0
    /\ var' = ValidateVars(input)
    /\ pc' = "analyze"
    /\ UNCHANGED <<input, rpn, pos, heap, stk, bnd, rootl, err, out, ub>>
    /\ UNCHANGED qmaVars

----------------------------------------------------------------------------
(* analyze(), lines 389-458 *)

\* Lines 391-395: the conversion failed, its message is reported.
ConvertFail ==
    /\ pc = "analyze"
    /\ LET r == cvtRPN(cvtAL(input)) IN
        /\ Len(r) > 0 /\ r[1] = "["
        /\ rpn' = r
    /\ err' = "[ERROR] Invalid expression"
    /\ pc' = "exit"
    /\ UNCHANGED <<input, var, pos, heap, stk, bnd, rootl, out, ub>>
    /\ UNCHANGED qmaVars

\* Lines 391-398: the conversion succeeded; stk is constructed empty and
\* std::bind stores a copy of it in errout.
ConvertOk ==
    /\ pc = "analyze"
    /\ LET r == cvtRPN(cvtAL(input)) IN
        /\ ~(Len(r) > 0 /\ r[1] = "[")
        /\ rpn' = r
    /\ stk' = <<>>
    /\ bnd' = <<>>
    /\ pos' = 0
    /\ pc' = "build"
    /\ UNCHANGED <<input, var, heap, rootl, err, out, ub>>
    /\ UNCHANGED qmaVars

\* The address new returns: nothing is freed while the loop runs.
FreshId == Len(heap) + 1

\* errout(msg): ast(msg, <the stored copy of stk>) and the return that follows.
ErrOut(msg) ==
    /\ heap' = astDelete(heap, bnd)
    /\ err' = msg
    /\ pc' = "exit"
    /\ UNCHANGED <<input, var, rpn, pos, stk, bnd, rootl, out, ub>>
    /\ UNCHANGED qmaVars

Cur == rpn[pos + 1]

\* Lines 400-403.
BuildOperand ==
    /\ pc = "build" /\ pos < Len(rpn)
    /\ isupper(Cur) \/ isdigit(Cur)
    /\ heap' = Append(heap, NewNode("Var", 0, 0,
                        IF isupper(Cur) THEN Ord(Cur) ELSE DigitVal(Cur)))
    /\ stk' = Append(stk, FreshId)
    /\ pos' = pos + 1
    /\ UNCHANGED <<pc, input, var, rpn, bnd, rootl, err, out, ub>>
    /\ UNCHANGED qmaVars

\* Lines 404-413.
BuildNot ==
    /\ pc = "build" /\ pos < Len(rpn)
    /\ ~(isupper(Cur) \/ isdigit(Cur)) /\ Cur = "'"
    /\ \/ /\ Len(stk) < 1
          /\ ErrOut("[ERROR] Invalid NOT logic")
       \/ /\ Len(stk) >= 1
          /\ heap' = Append(heap, NewNode("Not", Top(stk), 0, 0))
          /\ stk' = Append(Pop(stk), FreshId)
          /\ pos' = pos + 1
          /\ UNCHANGED <<pc, input, var, rpn, bnd, rootl, err, out, ub>>
          /\ UNCHANGED qmaVars

\* Lines 414-449: the three binary operators differ in the node and message.
BuildBinary(c, kind, msg) ==
    /\ pc = "build" /\ pos < Len(rpn)
    /\ ~(isupper(Cur) \/ isdigit(Cur)) /\ Cur = c
    /\ \/ /\ Len(stk) < 2
          /\ ErrOut(msg)
       \/ /\ Len(stk) >= 2
          /\ heap' = Append(heap, NewNode(kind, Top(stk), Top(Pop(stk)), 0))
          /\ stk' = Append(Pop(Pop(stk)), FreshId)
          /\ pos' = pos + 1
          /\ UNCHANGED <<pc, input, var, rpn, bnd, rootl, err, out, ub>>
          /\ UNCHANGED qmaVars

BuildAnd == BuildBinary("*", "And", "[ERROR] Invalid AND logic")
BuildXor == BuildBinary("^", "Xor", "[ERROR] Invalid XOR logic")
BuildOr == BuildBinary("+", "Or", "[ERROR] Invalid OR logic")

\* Lines 450-453.
BuildOther ==
    /\ pc = "build" /\ pos < Len(rpn)
    /\ ~(isupper(Cur) \/ isdigit(Cur)) /\ Cur \notin {"'", "*", "^", "+"}
    /\ ErrOut("[ERROR] Invalid logic")

\* Lines 454-458, reached when the loop has consumed every character.
\* More than one node: errout. One node: it becomes root.l. No node:
\* stk.top() on an empty stack is undefined behaviour; root.l receives an
\* indeterminate pointer and root.get() on line 462 (var is empty, no operand
\* was read) dereferences it, so the run crashes or prints either bit.
BuildEnd ==
    /\ pc = "build" /\ pos = Len(rpn)
    /\ \/ /\ Len(stk) > 1
          /\ ErrOut("[ERROR] Invalid logic")
       \/ /\ Len(stk) = 1
          /\ rootl' = Top(stk)
          /\ pc' = "built"
          /\ UNCHANGED <<input, var, rpn, pos, heap, stk, bnd, err, out, ub>>
          /\ UNCHANGED qmaVars
       \/ /\ Len(stk) = 0
          /\ ub' = TRUE
          /\ \/ pc' = "crash" /\ out' = out
             \/ pc' = "exit" /\ out' \in {"Constant expression: Y = 0",
                                           "Constant expression: Y = 1"}
          /\ UNCHANGED <<input, var, rpn, pos, heap, stk, bnd, rootl, err>>
          /\ UNCHANGED qmaVars

\* Lines 461-464.
ConstantExpr ==
    /\ pc = "built"
    /\ Cardinality(var) = 0
    /\ out' = IF get(heap, rootl, <<>>) = 0 THEN "Constant expression: Y = 0"
              ELSE "Constant expression: Y = 1"
    /\ pc' = "exit"
    /\ UNCHANGED <<input, var, rpn, pos, heap, stk, bnd, rootl, err, ub>>
    /\ UNCHANGED qmaVars

\* Lines 466-483: tvt() fills m; the two constant results return at once.
Tvt ==
    /\ pc = "built"
    /\ Cardinality(var) # 0
    /\ LET ms == tvtMinterms(heap, rootl, var) IN
        /\ m' = ms
        /\ \/ /\ Len(ms) = 0
              /\ out' = "Y = 0"
              /\ pc' = "exit"
           \/ /\ Len(ms) # 0 /\ Len(ms) = Pow2(Cardinality(var))
              /\ out' = "Y = 1"
              /\ pc' = "exit"
           \/ /\ Len(ms) # 0 /\ Len(ms) # Pow2(Cardinality(var))
              /\ out' = out
              /\ pc' = "qma"
    /\ UNCHANGED <<input, var, rpn, pos, heap, stk, bnd, rootl, err, ub>>
    /\ UNCHANGED <<ls, st, chk, f, cmb, rounds, cnt, rtn>>

----------------------------------------------------------------------------
(* QMA() and gpl(), lines 315-375 and 272-311 *)

\* Lines 319-325.
QMAConvert ==
    /\ pc = "qma"
    /\ ls' = ConvertLs(m, Cardinality(var))
    /\ st' = ConvertSt(m, Cardinality(var))
    /\ pc' = "merge"
    /\ UNCHANGED parseVars
    /\ UNCHANGED <<err, out, ub, m, chk, f, cmb, rounds, cnt, rtn>>

\* Lines 331-373: one pass of the do-while body and its exit test.
MergeRound ==
    /\ pc = "merge"
    /\ \E r \in {Round(ls, st)} :
        /\ ls' = r.ls
        /\ st' = r.st
        /\ chk' = r.chk
        /\ f' = r.f
        /\ cmb' = r.cmb
        /\ pc' = IF r.f THEN "merge" ELSE "count"
    /\ rounds' = rounds + 1
    /\ UNCHANGED parseVars
    /\ UNCHANGED <<err, out, ub, m, cnt, rtn>>

\* Lines 374 and 275-280: gpl(ls, st) is entered and counts the elements.
GplCount ==
    /\ pc = "count"
    /\ cnt' = CountElements(ls, st)
    /\ rtn' = <<>>
    /\ pc' = "gpl"
    /\ UNCHANGED parseVars
    /\ UNCHANGED <<err, out, ub, m, ls, st, chk, f, cmb, rounds>>

\* Lines 283-309: one pass of the while body.
GplStep ==
    /\ pc = "gpl"
    /\ DOMAIN cnt # {}
    /\ \E mns \in MinKeys(cnt) :
        \E ms \in MaxSets(cnt, st, mns) :
          \E d \in {Delete(cnt, st, ms)} :
            /\ rtn' = Append(rtn, ms)
            /\ st' = d.st
            /\ cnt' = d.cnt
    /\ UNCHANGED parseVars
    /\ UNCHANGED <<pc, err, out, ub, m, ls, chk, f, cmb, rounds>>

\* Lines 283, 310 and 484-507: the loop ends, the list is returned and the
\* terms are written (the text of the terms is not modelled).
GplReturn ==
    /\ pc = "gpl"
    /\ DOMAIN cnt = {}
    /\ out' = "Y = terms"
    /\ pc' = "exit"
    /\ UNCHANGED parseVars
    /\ UNCHANGED <<err, ub, m, ls, st, chk, f, cmb, rounds, cnt, rtn>>

NextQMA ==
    \/ QMAConvert
    \/ MergeRound
    \/ GplCount
    \/ GplStep
    \/ GplReturn

Next ==
    \/ ValidateReject
    \/ ValidateAccept
    \/ ConvertFail
    \/ ConvertOk
    \/ BuildOperand
    \/ BuildNot
    \/ BuildAnd
    \/ BuildXor
    \/ BuildOr
    \/ BuildOther
    \/ BuildEnd
    \/ ConstantExpr
    \/ Tvt
    \/ QMAConvert
    \/ MergeRound
    \/ GplCount
    \/ GplStep
    \/ GplReturn

Spec == Init /\ [][Next]_vars

SpecQMA == InitQMA /\ [][NextQMA]_vars

SpecQMAFair == InitQMA /\ [][NextQMA]_vars /\ WF_vars(NextQMA)

----------------------------------------------------------------------------
(* Reference semantics used by the properties (not part of the program) *)

NVars == Cardinality(var)
MintermSet == Range(m)

\* Minterm index x agrees with pattern p on every 0/1 position of p.
Covers(p, x) ==
    \A i \in DOMAIN p :
        \/ p[i] = "-"
        \/ p[i] = "1" /\ (x \div (2 ^ (Len(p) - i))) % 2 = 1
        \/ p[i] = "0" /\ (x \div (2 ^ (Len(p) - i))) % 2 = 0

\* The indices of [0, 2^N) that pattern p denotes.
CubeOf(p) == {x \in 0..(Pow2(Len(p)) - 1) : Covers(p, x)}

DashSet(p) == {i \in DOMAIN p : p[i] = "-"}

AllPatterns(n) == [1..n -> {"0", "1", "-"}]

IsImplicant(p) == CubeOf(p) \subseteq MintermSet

IsPrime(p) ==
    /\ IsImplicant(p)
    /\ \A i \in DOMAIN p :
        p[i] # "-" => ~(CubeOf([p EXCEPT ![i] = "-"]) \subseteq MintermSet)

PrimeImplicants == {p \in AllPatterns(NVars) : IsPrime(p)}

\* The prime implicants that cover minterm x.
PrimesCovering(x) == {p \in Range(ls) : Covers(p, x)}

\* The minterms of DOMAIN c that pattern p covers.
Uncovered(c, p) == {x \in DOMAIN c : Covers(p, x)}

\* A recursive-descent reader of the surface grammar
\*   expr := xor ('+' xor)*, xor := term ('^' term)*, term := factor factor*,
\*   factor := atom "'"*, atom := VARIABLE | '0' | '1' | '(' expr ')'
\* giving [ok, pos, val]: whether a phrase was read from position i, the
\* position after it, and its value under assignment a.
RefFail == [ok |-> FALSE, pos |-> 0, val |-> 0]

StartsFactor(s, i) ==
    i <= Len(s) /\ (isupper(s[i]) \/ s[i] \in {"0", "1", "("})

RECURSIVE RefExpr(_, _, _)
RECURSIVE RefExprRest(_, _, _)
RECURSIVE RefXor(_, _, _)
RECURSIVE RefXorRest(_, _, _)
RECURSIVE RefTerm(_, _, _)
RECURSIVE RefTermRest(_, _, _)
RECURSIVE RefFactor(_, _, _)
RECURSIVE RefNots(_, _)
RECURSIVE RefAtom(_, _, _)

RefAtom(s, i, a) ==
    IF i > Len(s) THEN RefFail
    ELSE IF isupper(s[i]) THEN [ok |-> TRUE, pos |-> i + 1, val |-> a[s[i]]]
    ELSE IF s[i] \in {"0", "1"} THEN [ok |-> TRUE, pos |-> i + 1, val |-> DigitVal(s[i])]
    ELSE IF s[i] = "(" THEN
        LET e == RefExpr(s, i + 1, a)
        IN  IF e.ok /\ e.pos <= Len(s) /\ s[e.pos] = ")"
            THEN [e EXCEPT !.pos = @ + 1]
            ELSE RefFail
    ELSE RefFail

RefNots(s, r) ==
    IF r.pos <= Len(s) /\ s[r.pos] = "'"
    THEN RefNots(s, [r EXCEPT !.pos = @ + 1, !.val = 1 - @])
    ELSE r

RefFactor(s, i, a) ==
    LET r == RefAtom(s, i, a) IN IF r.ok THEN RefNots(s, r) ELSE RefFail

RefTermRest(s, r, a) ==
    IF StartsFactor(s, r.pos)
    THEN LET g == RefFactor(s, r.pos, a)
         IN  IF g.ok THEN RefTermRest(s, [g EXCEPT !.val = r.val * g.val], a)
             ELSE RefFail
    ELSE r

RefTerm(s, i, a) ==
    LET r == RefFactor(s, i, a) IN IF r.ok THEN RefTermRest(s, r, a) ELSE RefFail

RefXorRest(s, r, a) ==
    IF r.pos <= Len(s) /\ s[r.pos] = "^"
    THEN LET g == RefTerm(s, r.pos + 1, a)
         IN  IF g.ok THEN RefXorRest(s, [g EXCEPT !.val = (r.val + g.val) % 2], a)
             ELSE RefFail
    ELSE r

RefXor(s, i, a) ==
    LET r == RefTerm(s, i, a) IN IF r.ok THEN RefXorRest(s, r, a) ELSE RefFail

RefExprRest(s, r, a) ==
    IF r.pos <= Len(s) /\ s[r.pos] = "+"
    THEN LET g == RefXor(s, r.pos + 1, a)
         IN  IF g.ok
             THEN RefExprRest(s, [g EXCEPT !.val = IF r.val + g.val > 0 THEN 1 ELSE 0], a)
             ELSE RefFail
    ELSE r

RefExpr(s, i, a) ==
    LET r == RefXor(s, i, a) IN IF r.ok THEN RefExprRest(s, r, a) ELSE RefFail

RefVars(s) == {s[i] : i \in {k \in DOMAIN s : isupper(s[k])}}

\* s is a sentence of the surface grammar.
Conforms(s) ==
    LET r == RefExpr(s, 1, [c \in RefVars(s) |-> 0])
    IN  r.ok /\ r.pos = Len(s) + 1

RefValue(s, a) == RefExpr(s, 1, a).val

RECURSIVE DepthAfter(_, _)
\* Parenthesis depth after the first n characters; -1 once a ')' had no '('.
DepthAfter(s, n) ==
    IF n = 0 THEN 0
    ELSE LET d == DepthAfter(s, n - 1)
         IN  IF d < 0 THEN -1
             ELSE IF s[n] = "(" THEN d + 1
             ELSE IF s[n] = ")" THEN d - 1
             ELSE d

Unbalanced(s) == DepthAfter(s, Len(s)) # 0

Ended == pc \in {"exit", "crash"}
BuilderMessages ==
    {"[ERROR] Invalid NOT logic", "[ERROR] Invalid AND logic",
     "[ERROR] Invalid XOR logic", "[ERROR] Invalid OR logic", "[ERROR] Invalid logic"}

----------------------------------------------------------------------------
(* Properties *)

\* C1: when gpl() has returned, every minterm of m agrees with the fixed
\* bits of at least one pattern of the returned list.
C1_TotalCover ==
    (pc = "exit" /\ out = "Y = terms") =>
        \A x \in MintermSet :
            \E k \in DOMAIN rtn : Len(rtn[k]) = NVars /\ Covers(rtn[k], x)

C1_Witness ==
    /\ pc = "exit" /\ out = "Y = terms"
    /\ NVars = 3 /\ Len(rtn) >= 3
    /\ \E k \in DOMAIN rtn : DashSet(rtn[k]) # {}

\* C2: every index that agrees with a selected pattern on its 0/1 positions
\* is a minterm of m, at every point of the selection.
C2_NoZeroMinterm ==
    pc \in {"gpl", "exit"} =>
        \A k \in DOMAIN rtn : Len(rtn[k]) = NVars /\ IsImplicant(rtn[k])

C2_Witness ==
    /\ pc = "exit"
    /\ \E k \in DOMAIN rtn : Cardinality(DashSet(rtn[k])) = 2
    /\ \E k \in DOMAIN rtn : DashSet(rtn[k]) = {}

\* C3: an input of the surface grammar never fails, and the tree built for it
\* evaluates under every assignment to the value the grammar gives it with
\* NOT > AND > XOR > OR.
C3_TreeMatchesGrammar ==
    Conforms(input) =>
        /\ err = "" /\ ~ub /\ pc # "crash"
        /\ pc \notin {"validate", "analyze", "build"} =>
            /\ rootl # 0
            /\ \A i \in 0..(Pow2(NVars) - 1) :
                get(heap, rootl, mvarOf(var, i)) = RefValue(input, mvarOf(var, i))

C3_Witness ==
    /\ pc = "built" /\ Conforms(input)
    /\ Len(input) = 6 /\ NVars = 2
    /\ {"(", "+", "'"} \subseteq Range(input)

\* C4 (as claimed): a validated input with unbalanced parentheses ends with
\* the converter's "Invalid expression" message and nothing evaluated.
C4_Claim ==
    (Ended /\ FirstInvalid(input) = 0 /\ Unbalanced(input)) =>
        (err = "[ERROR] Invalid expression" /\ out = "")

\* C5 (as claimed): after a failure of the tree builder no node is allocated.
C5_Claim ==
    (Ended /\ pc = "exit" /\ err \in BuilderMessages) => DOMAIN heap = {}

\* C6 (as claimed): once every postfix character is consumed, either one node
\* is on the stack and is the root, or a failure is reported and no root read.
C6_Claim ==
    (FirstInvalid(input) = 0 /\ pc \notin {"validate", "analyze", "build"}
        /\ pos = Len(rpn)) =>
        \/ Len(stk) = 1 /\ rootl = Top(stk) /\ ~ub
        \/ Len(stk) # 1 /\ err # "" /\ ~ub /\ rootl = 0

\* C7: every pair the last round combined has '-' in the same positions and
\* differs in one position that holds 0 in one pattern and 1 in the other.
C7_SameDashes ==
    \A pr \in cmb :
        /\ Len(pr[1]) = Len(pr[2])
        /\ DashSet(pr[1]) = DashSet(pr[2])
        /\ \E i \in DOMAIN pr[1] :
            /\ {pr[1][i], pr[2][i]} = {"0", "1"}
            /\ \A k \in (DOMAIN pr[1]) \ {i} : pr[1][k] = pr[2][k]

C7_Witness ==
    /\ rounds >= 2
    /\ \E pr \in cmb : DashSet(pr[1]) # {}
    /\ \E p \in Range(ls) : DashSet(p) = {}

\* C8: the list handed to gpl() holds exactly the prime implicants of m,
\* each once.
C8_ExactlyPrimes ==
    pc = "count" =>
        /\ Range(ls) = PrimeImplicants
        /\ Len(ls) = Cardinality(Range(ls))

C8_Witness ==
    /\ pc = "count" /\ rounds >= 3
    /\ \E p \in Range(ls) : DashSet(p) = {}
    /\ \E p \in Range(ls) : Cardinality(DashSet(p)) = 2

\* C9: the pattern a selection step appends covers an uncovered minterm that
\* has the fewest covering prime implicants of all uncovered minterms, no
\* implicant covering that minterm covers more uncovered minterms, and after
\* the step no minterm it covers is a key of cnt or a member of a set of st.
C9_Step ==
    (pc = "gpl" /\ Len(rtn') = Len(rtn) + 1) =>
        LET ms == rtn'[Len(rtn')] IN
        /\ Len(ms) = NVars
        /\ \E x \in Uncovered(cnt, ms) :
            /\ \A y \in DOMAIN cnt :
                Cardinality(PrimesCovering(x)) <= Cardinality(PrimesCovering(y))
            /\ \A q \in PrimesCovering(x) :
                Cardinality(Uncovered(cnt, q)) <= Cardinality(Uncovered(cnt, ms))
        /\ \A x \in CubeOf(ms) :
            /\ x \notin DOMAIN cnt'
            /\ \A p \in DOMAIN st' : x \notin st'[p]

C9_GreedyChoice == [][C9_Step]_vars

C9_Witness ==
    /\ pc = "gpl" /\ Len(rtn) >= 2 /\ DOMAIN cnt # {}
    /\ \E x \in DOMAIN cnt : Cardinality(cnt[x]) >= 2

\* C10: the run ends; a merge round that sets f takes at least one pattern
\* out of ls, a pattern once taken out of ls is never in ls again, and every
\* selection step removes at least one key of cnt.
C10_RoundStep ==
    (pc = "merge" /\ rounds' = rounds + 1) =>
        /\ f' => \E p \in Range(ls) : p \notin Range(ls')
        /\ \A p \in (DOMAIN st) \ Range(ls) : p \notin Range(ls')

C10_CoverStep ==
    (pc = "gpl" /\ Len(rtn') = Len(rtn) + 1) =>
        /\ DOMAIN cnt' \subseteq DOMAIN cnt
        /\ DOMAIN cnt' # DOMAIN cnt

C10_Terminates ==
    /\ <>(pc = "exit")
    /\ [][C10_RoundStep /\ C10_CoverStep]_vars

C10_Witness ==
    /\ pc = "exit" /\ rounds >= 3 /\ Len(rtn) >= 2

====
